---------------------------- MODULE Spec2Model ----------------------------
(***************************************************************************)
(* A model of src/EDA.py, the Streamlit dashboard script.                  *)
(*                                                                         *)
(* The script is re-executed from its first line on every user             *)
(* interaction; the only state that survives a run is the st.cache_data    *)
(* entry of load_data and the values of the two checkboxes.  A run is      *)
(* modelled block by block (pc), and what it renders is collected in page. *)
(*                                                                         *)
(* Numbers: a float that is a quotient of integers is kept as the exact    *)
(* fraction [n, d]; the float NaN is the fraction 0/0.  Floating-point     *)
(* rounding is not modelled.                                               *)
(***************************************************************************)
EXTENDS Integers, Sequences, FiniteSets, TLC

VARIABLES
    disk,           \* TRUE iff data/processed/processed_startups_data.csv exists
    csv,            \* the rows of that file (what read_csv returns when it exists)
    cache,          \* the st.cache_data entry of load_data()
    df,             \* the script's variable df in the current run
    preview,        \* value of the checkbox "Show Raw Data Preview"
    show_outliers,  \* value of the checkbox "Show Outliers"
    pc,             \* the block of the script the current run is at
    page,           \* the elements the current run has rendered, in order
    last_run        \* the finished run before the current one

vars == <<disk, csv, cache, df, preview, show_outliers, pc, page, last_run>>

-----------------------------------------------------------------------------
(* Missing values.                                                         *)

\* pandas' missing datetime (errors='coerce' yields it); a day number otherwise
NaT == -1000000
\* pandas' missing value in an integer-valued or string column
NaN == -2000000

\* an exact fraction n/d standing for a float; 0/0 is the float NaN
Rat(n, d) == [n |-> n, d |-> d]
RatNaN == Rat(0, 0)
IsNaN(r) == r.d = 0
RECURSIVE GCD(_, _)
GCD(a, b) == IF b = 0 THEN a ELSE GCD(b, a % b)
Abs(x) == IF x < 0 THEN 0 - x ELSE x
\* fractions are kept in lowest terms with a positive denominator
Norm(n, d) ==
    IF d = 0 THEN RatNaN
    ELSE LET g == GCD(Abs(n), Abs(d))
             sg == IF d < 0 THEN 0 - 1 ELSE 1
         IN  Rat(sg * (n \div g), sg * (d \div g))
RatAdd(a, b) == IF IsNaN(a) \/ IsNaN(b) THEN RatNaN
                ELSE Norm(a.n * b.d + b.n * a.d, a.d * b.d)
RatSub(a, b) == IF IsNaN(a) \/ IsNaN(b) THEN RatNaN
                ELSE Norm(a.n * b.d - b.n * a.d, a.d * b.d)
\* a * p / q for integers p, q
RatScale(a, p, q) == IF IsNaN(a) THEN RatNaN ELSE Norm(a.n * p, a.d * q)
RatLE(a, b) == ~IsNaN(a) /\ ~IsNaN(b) /\ a.n * b.d <= b.n * a.d
RatLT(a, b) == ~IsNaN(a) /\ ~IsNaN(b) /\ a.n * b.d < b.n * a.d

-----------------------------------------------------------------------------
(* Sequence helpers standing for the pandas primitives the script calls.   *)

\* a function on 1..n as the tuple of its values, each computed once
AsSeq(f) == f \o <<>>

Range(s) == {s[i] : i \in 1..Len(s)}

Head_n(s, n) == IF Len(s) <= n THEN s ELSE SubSeq(s, 1, n)

\* the distinct values of s, in order of first appearance
Uniq(s) ==
    LET first == {i \in 1..Len(s) : \A j \in 1..(i - 1) : s[j] # s[i]}
        nth == AsSeq([i \in 1..Len(s) |-> Cardinality({j \in first : j <= i})])
    IN  AsSeq([k \in 1..Cardinality(first) |->
                  s[CHOOSE i \in first : nth[i] = k]])

Count(s, x) == Cardinality({i \in 1..Len(s) : s[i] = x})

\* s in the order less, stably: less[i][j] says that s[i] goes before s[j], and
\* elements that less does not order keep their order in s
SortBy(s, less) ==
    LET n == Len(s)
        rank == AsSeq([i \in 1..n |->
                    1 + Cardinality({j \in 1..n :
                            \/ less[j][i]
                            \/ ~less[i][j] /\ j < i})])
    IN  AsSeq([p \in 1..n |-> s[CHOOSE i \in 1..n : rank[i] = p]])
\* the orders of a sequence of integer keys
Asc(keys) ==
    AsSeq([i \in 1..Len(keys) |->
              AsSeq([j \in 1..Len(keys) |-> keys[i] < keys[j]])])
Desc(keys) ==
    AsSeq([i \in 1..Len(keys) |->
              AsSeq([j \in 1..Len(keys) |-> keys[i] > keys[j]])])

RECURSIVE SumSeq(_)
SumSeq(s) == IF s = <<>> THEN 0 ELSE s[1] + SumSeq(Tail(s))

Column(frame, c) == AsSeq([i \in 1..Len(frame) |-> frame[i][c]])

-----------------------------------------------------------------------------
(* Dates.  A CSV date cell is [text, y, m, d]: text "date" with the year,  *)
(* month and day written in it, "" for an empty cell, "junk" for text that *)
(* is no date.  A Timestamp is the number of days since 1970-01-01.        *)

DateCell(y, m, d) == [text |-> "date", y |-> y, m |-> m, d |-> d]
EmptyCell == [text |-> "", y |-> 0, m |-> 0, d |-> 0]
JunkCell == [text |-> "junk", y |-> 0, m |-> 0, d |-> 0]

IsLeap(y) == (y % 4 = 0 /\ y % 100 # 0) \/ y % 400 = 0

DaysInMonth(y, m) ==
    IF m = 2 THEN (IF IsLeap(y) THEN 29 ELSE 28)
    ELSE IF m \in {4, 6, 9, 11} THEN 30 ELSE 31

\* days from 1970-01-01 to the proleptic Gregorian date y-m-d
DaysFromCivil(y, m, d) ==
    LET yy  == IF m <= 2 THEN y - 1 ELSE y
        era == yy \div 400
        yoe == yy - era * 400
        mp  == IF m > 2 THEN m - 3 ELSE m + 9
        doy == (153 * mp + 2) \div 5 + d - 1
        doe == yoe * 365 + yoe \div 4 - yoe \div 100 + doy
    IN  era * 146097 + doe - 719468

\* Series.dt.year of a Timestamp
YearOf(ts) ==
    LET z   == ts + 719468
        era == z \div 146097
        doe == z - era * 146097
        yoe == (doe - doe \div 1460 + doe \div 36524 - doe \div 146096) \div 365
        doy == doe - (365 * yoe + yoe \div 4 - yoe \div 100)
        mp  == (5 * doy + 2) \div 153
        m   == IF mp < 10 THEN mp + 3 ELSE mp - 9
    IN  yoe + era * 400 + (IF m <= 2 THEN 1 ELSE 0)

\* pd.to_datetime(cell, errors='coerce'): NaT for an empty cell, for text that
\* is no calendar date and for a date outside the Timestamp range
to_datetime(cell) ==
    IF /\ cell.text = "date"
       /\ cell.y \in 1678..2261
       /\ cell.m \in 1..12
       /\ cell.d \in 1..DaysInMonth(cell.y, cell.m)
    THEN DaysFromCivil(cell.y, cell.m, cell.d)
    ELSE NaT

\* (a - b).dt.days
DaysBetween(a, b) == IF a = NaT \/ b = NaT THEN NaN ELSE a - b

\* load_data's frame: the CSV rows with the three date columns converted and
\* founded_year and lifespan_days added
ProcessRow(r) ==
    LET founded == to_datetime(r.founded_at)
        first   == to_datetime(r.first_funding_at)
        last    == to_datetime(r.last_funding_at)
    IN  [ idx               |-> r.idx,
          status            |-> r.status,
          category          |-> r.category,
          country_code      |-> r.country_code,
          funding_total_usd |-> r.funding_total_usd,
          founded_at        |-> founded,
          first_funding_at  |-> first,
          last_funding_at   |-> last,
          founded_year      |-> IF founded = NaT THEN NaN ELSE YearOf(founded),
          lifespan_days     |-> DaysBetween(last, founded) ]

\* what load_data returns: None when read_csv raises FileNotFoundError
None == [is_none |-> TRUE, rows |-> <<>>]
Frame(rows) == [is_none |-> FALSE, rows |-> rows]

load_data_body(exists, file) ==
    IF exists THEN Frame(AsSeq([i \in 1..Len(file) |-> ProcessRow(file[i])]))
    ELSE None

-----------------------------------------------------------------------------
(* pandas primitives on a column (a sequence of values).                   *)

notna(x) == x # NaN

\* Series.value_counts() of a column without missing values: one row per
\* distinct value, most frequent first, equal counts in order of appearance
CountsOf(col) ==
    LET u == Uniq(col)
        rows == AsSeq([i \in 1..Len(u) |-> [key |-> u[i], n |-> Count(col, u[i])]])
    IN  SortBy(rows, Desc(Column(rows, "n")))

\* Series.value_counts(): missing values are not counted (dropna=True)
value_counts(col) == CountsOf(SelectSeq(col, notna))

\* Series.nlargest(k) of a value_counts() result (keep='first')
nlargest(k, counts) == Head_n(SortBy(counts, Desc(Column(counts, "n"))), k)

\* .index of a value_counts() result, as the set isin() tests against
Index(counts) == {counts[i].key : i \in 1..Len(counts)}

\* Series.quantile(qn/qd), linear interpolation, of integer values over the
\* common denominator den; NaN for an empty Series
quantile(values, den, qn, qd) ==
    LET v == SortBy(values, Asc(values))
        n == Len(v)
        k == (qn * (n - 1)) \div qd
        r == (qn * (n - 1)) % qd
    IN  IF n = 0 THEN RatNaN
        ELSE IF r = 0 THEN Norm(v[k + 1], den)
        ELSE Norm((qd - r) * v[k + 1] + r * v[k + 2], qd * den)

\* Series.max() of floats: NaN for an empty Series
RatMax(s) ==
    LET nums == {i \in 1..Len(s) : ~IsNaN(s[i])}
    IN  IF nums = {} THEN RatNaN
        ELSE s[CHOOSE i \in nums : \A j \in nums : RatLE(s[j], s[i])]

-----------------------------------------------------------------------------
(* The frames the script derives from df; f is the sequence of df's rows.  *)

\* col1: df['status'].value_counts()
status_counts(f) == CountsOf(Column(f, "status"))

\* col3: df['category'].value_counts().nlargest(15)
top_cats(f) == nlargest(15, value_counts(Column(f, "category")))

\* tab2: the rows of the 10 most frequent countries
top_countries_list(f) == Index(nlargest(10, value_counts(Column(f, "country_code"))))
df_top_countries(f) ==
    LET top == top_countries_list(f)
    IN  SelectSeq(f, LAMBDA r : r.country_code \in top)

\* tab3: mean funding per founding year; groupby drops the rows whose key is
\* missing and orders the groups by key
YearsFrom == 1990
YearsTo == 2023
mean(values) == Norm(SumSeq(values), Len(values))
groupby_year_mean(f) ==
    LET keyed == SelectSeq(f, LAMBDA r : notna(r.founded_year))
        found == Uniq(Column(keyed, "founded_year"))
        years == SortBy(found, Asc(found))
    IN  AsSeq([i \in 1..Len(years) |->
            [founded_year |-> years[i],
             funding_total_usd |->
                mean(Column(SelectSeq(keyed, LAMBDA r : r.founded_year = years[i]),
                            "funding_total_usd"))]])
\* mutation of funding_trend: the upper end of the year range is not applied
funding_trend_unbounded(f) ==
    SelectSeq(groupby_year_mean(f), LAMBDA g : g.founded_year >= YearsFrom)
funding_trend(f) ==
    SelectSeq(groupby_year_mean(f),
              LAMBDA g : g.founded_year >= YearsFrom /\ g.founded_year <= YearsTo)

\* tab4: survival rate per category
category_totals(f) == value_counts(Column(f, "category"))
operating_counts(f) ==
    value_counts(Column(SelectSeq(f, LAMBDA r : r.status = "operating"), "category"))

\* pd.merge(left, right, on='Category', how='left'): every row of left, with
\* the count of right where the category is in it and a missing value otherwise
merge_left(left, right) ==
    AsSeq([i \in 1..Len(left) |->
        [Category        |-> left[i].key,
         Total_Startups  |-> left[i].n,
         Operating_Count |->
            IF \E j \in 1..Len(right) : right[j].key = left[i].key
            THEN (CHOOSE c \in Range(right) : c.key = left[i].key).n
            ELSE NaN]])

\* mutation of fillna: the missing count is left missing
fillna_skipped(x, v) == x
fillna(x, v) == IF x = NaN THEN v ELSE x

\* (Operating_Count / Total_Startups) * 100
rate(operating, total) ==
    IF operating = NaN THEN RatNaN ELSE Norm(operating * 100, total)

survival_df(f) ==
    LET m == merge_left(category_totals(f), operating_counts(f))
    IN  AsSeq([i \in 1..Len(m) |->
            LET oc == fillna(m[i].Operating_Count, 0)
            IN  [Category        |-> m[i].Category,
                 Total_Startups  |-> m[i].Total_Startups,
                 Operating_Count |-> oc,
                 Survival_Rate   |-> rate(oc, m[i].Total_Startups)]])

TopN == 30
\* mutation of nlargest_total: the k smallest instead of the k largest
nsmallest_total(k, frame) ==
    Head_n(SortBy(frame, Asc(Column(frame, "Total_Startups"))), k)
\* DataFrame.nlargest(30, 'Total_Startups'), keep='first'
nlargest_total(k, frame) ==
    Head_n(SortBy(frame, Desc(Column(frame, "Total_Startups"))), k)
\* DataFrame.sort_values('Survival_Rate', ascending=True)
sort_by_rate(frame) ==
    SortBy(frame, AsSeq([i \in 1..Len(frame) |-> AsSeq([j \in 1..Len(frame) |->
                      RatLT(frame[i].Survival_Rate, frame[j].Survival_Rate)])]))
top_30_categories(f) == sort_by_rate(nlargest_total(TopN, survival_df(f)))

\* tab5: days from founding to first funding
target_statuses == {"operating", "acquired", "ipo", "closed"}
with_days_to_first_funding(f) ==
    AsSeq([i \in 1..Len(f) |->
        [idx    |-> f[i].idx,
         status |-> f[i].status,
         days_to_first_funding |->
            DaysBetween(f[i].first_funding_at, f[i].founded_at)]])
\* mutation of ge0: > 0 instead of >= 0
ge0_strict(x) == x # NaN /\ x > 0
\* a comparison with a missing value is False
ge0(x) == x # NaN /\ x >= 0
df_timing(f) ==
    SelectSeq(with_days_to_first_funding(
                  SelectSeq(f, LAMBDA r : r.status \in target_statuses)),
              LAMBDA r : ge0(r.days_to_first_funding))

\* tab6: df_life, the rows with a positive lifespan, with lifespan_years
gt0(x) == x # NaN /\ x > 0
df_life(f) ==
    LET kept == SelectSeq(f, LAMBDA r : gt0(r.lifespan_days))
    IN  AsSeq([i \in 1..Len(kept) |->
            [idx               |-> kept[i].idx,
             status            |-> kept[i].status,
             lifespan_days     |-> kept[i].lifespan_days,
             lifespan_years    |-> Norm(kept[i].lifespan_days, 365),
             funding_total_usd |-> kept[i].funding_total_usd]])

\* tab6, zoomed view: grouped.quantile(q) of lifespan_years for one status;
\* lifespan_years is lifespan_days / 365, so the days are interpolated over
\* the denominator 365
statuses_of(life) == Uniq(Column(life, "status"))
group_quantile(life, st, qn, qd) ==
    quantile(Column(SelectSeq(life, LAMBDA r : r.status = st), "lifespan_days"),
             365, qn, qd)
\* Q3 + (1.5 * IQR) with IQR = Q3 - Q1
upper_fence(Q1, Q3) == RatAdd(Q3, RatScale(RatSub(Q3, Q1), 3, 2))
upper_fences(life) ==
    LET sts == statuses_of(life)
    IN  AsSeq([i \in 1..Len(sts) |->
            upper_fence(group_quantile(life, sts[i], 1, 4),
                        group_quantile(life, sts[i], 3, 4))])
max_limit(life) == RatMax(upper_fences(life))
zoom_limit(life) == RatAdd(max_limit(life), Rat(1, 1))

\* multi_tab1: the heatmap's rows, the counts of its non-empty cells and the
\* colour cap
top_countries(f) == Index(nlargest(10, value_counts(Column(f, "country_code"))))
top_categories(f) == Index(nlargest(10, value_counts(Column(f, "category"))))
df_heatmap(f) ==
    LET countries == top_countries(f)
        categories == top_categories(f)
    IN  SelectSeq(f, LAMBDA r : /\ r.country_code \in countries
                                /\ r.category \in categories)
\* groupby(['country_code', 'category']).size(): one count per pair that occurs
cell_counts(h) ==
    LET pairs == Uniq(AsSeq([i \in 1..Len(h) |-> <<h[i].country_code, h[i].category>>]))
    IN  AsSeq([i \in 1..Len(pairs) |->
            Cardinality({j \in 1..Len(h) :
                <<h[j].country_code, h[j].category>> = pairs[i]})])
z_max(f) == quantile(cell_counts(df_heatmap(f)), 1, 95, 100)
\* int(x): truncation; raises ValueError for NaN
int_raises(x) == IsNaN(x)
int(x) == x.n \div x.d

\* multi_tab2 and multi_tab3
top_15_cats(f) == Index(nlargest(15, value_counts(Column(f, "category"))))
df_sunburst(f) ==
    LET top == top_15_cats(f)
    IN  SelectSeq(f, LAMBDA r : r.category \in top)
\* the categories 'Technology', 'Health & Biotechnology', 'E-Commerce & Retail',
\* 'Media & Entertainment' are the categories 1..4 of the model
target_industries == 1..4
df_facet(f) == SelectSeq(f, LAMBDA r : r.category \in target_industries)

\* df.head(): the first five rows
head(f) == Head_n(f, 5)

-----------------------------------------------------------------------------
(* Rendered elements.  A chart carries the rows handed to the figure and   *)
(* the axis settings the script gives it.                                  *)

Layout(ytype, autorange, yrange, xrange, crange) ==
    [yaxis_type |-> ytype, yaxis_autorange |-> autorange,
     yaxis_range |-> yrange, xaxis_range |-> xrange, range_color |-> crange]
Plain == Layout("-", "unset", <<>>, <<>>, <<>>)
LogY == Layout("log", "unset", <<>>, <<>>, <<>>)

El(kind, id, data, layout) ==
    [el |-> kind, id |-> id, data |-> data, layout |-> layout]
Text(kind, id) == El(kind, id, <<>>, Plain)
Chart(id, data, layout) == El("plotly_chart", id, data, layout)

\* the rows of a frame as the figure identifies them
Idx(frame) == Column(frame, "idx")

\* tab6: the y-axis of fig_lifespan
lifespan_layout(outliers, life) ==
    IF outliers THEN Layout("-", "true", <<>>, <<>>, <<>>)
    ELSE Layout("linear", "unset", <<Rat(0, 1), zoom_limit(life)>>, <<>>, <<>>)

\* mutation of lifespan_points: the zoomed view drops the startups above the
\* greatest upper fence
lifespan_points_zoomed(outliers, life) ==
    IF outliers THEN life
    ELSE SelectSeq(life, LAMBDA r : RatLE(r.lifespan_years, max_limit(life)))
\* tab6: the rows of fig_lifespan (points= is commented out in px.box)
lifespan_points(outliers, life) == life

-----------------------------------------------------------------------------
(* The script, block by block.                                             *)

Idle == {"done", "stopped", "crashed"}

NoRun == [outcome |-> "none", page |-> <<>>, preview |-> FALSE,
          show_outliers |-> TRUE, df |-> <<>>]

Rows == df[1].rows

\* @st.cache_data: the first call runs the body and stores what it returns,
\* None included; later calls return the stored value
load_data(entry, exists, file) ==
    IF entry = <<>> THEN load_data_body(exists, file) ELSE entry[1]

Emit(els) == page' = page \o els

\* lines 9-19
Title ==
    /\ pc = "start"
    /\ Emit(<<Text("title", "Startup Success Factors"), Text("markdown", "intro")>>)
    /\ pc' = "load"
    /\ UNCHANGED <<disk, csv, cache, df, preview, show_outliers, last_run>>

\* line 45
LoadData ==
    /\ pc = "load"
    /\ df' = <<load_data(cache, disk, csv)>>
    /\ cache' = (IF cache = <<>> THEN df' ELSE cache)
    /\ pc' = "check"
    /\ UNCHANGED <<disk, csv, preview, show_outliers, page, last_run>>

\* mutation of MissingFile: st.error without st.stop
MissingFile_NoStop ==
    /\ pc = "check"
    /\ df[1].is_none
    /\ Emit(<<Text("error", "not found")>>)
    /\ pc' = "univariate"
    /\ preview' = FALSE
    /\ show_outliers' = TRUE
    /\ UNCHANGED <<disk, csv, cache, df, last_run>>

\* lines 47-49: st.error and st.stop; the run renders no widget, so the
\* framework drops both checkbox values
MissingFile ==
    /\ pc = "check"
    /\ df[1].is_none
    /\ Emit(<<Text("error", "not found")>>)
    /\ pc' = "stopped"
    /\ preview' = FALSE
    /\ show_outliers' = TRUE
    /\ UNCHANGED <<disk, csv, cache, df, last_run>>

\* lines 52-53
RawPreview ==
    /\ pc = "check"
    /\ ~df[1].is_none
    /\ Emit(<<Text("checkbox", "Show Raw Data Preview")>>
            \o (IF preview THEN <<El("dataframe", "df.head()", Idx(head(Rows)), Plain)>>
                ELSE <<>>))
    /\ pc' = "univariate"
    /\ UNCHANGED <<disk, csv, cache, df, preview, show_outliers, last_run>>

\* lines 58-101
Univariate ==
    /\ pc = "univariate"
    /\ Emit(<<Text("header", "1. Univariate Analysis"),
              Chart("fig_status", status_counts(Rows), Plain),
              Chart("fig_rounds", Idx(Rows), Plain),
              Chart("fig_cat", top_cats(Rows), Plain),
              Chart("fig_fund", Idx(Rows), LogY)>>)
    /\ pc' = "bivariate"
    /\ UNCHANGED <<disk, csv, cache, df, preview, show_outliers, last_run>>

\* lines 106-116
BivariateHeader ==
    /\ pc = "bivariate"
    /\ Emit(<<Text("header", "2. Bivariate Analysis")>>)
    /\ pc' = "tab1"
    /\ UNCHANGED <<disk, csv, cache, df, preview, show_outliers, last_run>>

\* lines 119-127
Tab1 ==
    /\ pc = "tab1"
    /\ Emit(<<Chart("fig_box", Idx(Rows), LogY)>>)
    /\ pc' = "tab2"
    /\ UNCHANGED <<disk, csv, cache, df, preview, show_outliers, last_run>>

\* lines 130-139
Tab2 ==
    /\ pc = "tab2"
    /\ Emit(<<Chart("fig_country", Idx(df_top_countries(Rows)), Plain)>>)
    /\ pc' = "tab3"
    /\ UNCHANGED <<disk, csv, cache, df, preview, show_outliers, last_run>>

\* lines 142-151
Tab3 ==
    /\ pc = "tab3"
    /\ Emit(<<Chart("fig_line", funding_trend(Rows), Plain)>>)
    /\ pc' = "tab4"
    /\ UNCHANGED <<disk, csv, cache, df, preview, show_outliers, last_run>>

\* lines 154-186
Tab4 ==
    /\ pc = "tab4"
    /\ Emit(<<Chart("fig_survival", top_30_categories(Rows),
                    Layout("-", "unset", <<>>, <<0, 110>>, <<>>))>>)
    /\ pc' = "tab5"
    /\ UNCHANGED <<disk, csv, cache, df, preview, show_outliers, last_run>>

\* lines 189-211
Tab5 ==
    /\ pc = "tab5"
    /\ Emit(<<Chart("fig_timing", df_timing(Rows), LogY)>>)
    /\ pc' = "tab6"
    /\ UNCHANGED <<disk, csv, cache, df, preview, show_outliers, last_run>>

\* lines 217-278
Tab6 ==
    /\ pc = "tab6"
    /\ Emit(<<Text("checkbox", "Show Outliers"),
              Chart("fig_lifespan",
                    lifespan_points(show_outliers, df_life(Rows)),
                    lifespan_layout(show_outliers, df_life(Rows)))>>)
    /\ pc' = "tab7"
    /\ UNCHANGED <<disk, csv, cache, df, preview, show_outliers, last_run>>

\* lines 280-304
Tab7 ==
    /\ pc = "tab7"
    /\ Emit(<<Chart("fig_money_time", df_life(Rows), LogY)>>)
    /\ pc' = "multivariate"
    /\ UNCHANGED <<disk, csv, cache, df, preview, show_outliers, last_run>>

\* lines 309-312
MultivariateHeader ==
    /\ pc = "multivariate"
    /\ Emit(<<Text("header", "3. Multivariate Analysis")>>)
    /\ pc' = "multi_tab1"
    /\ UNCHANGED <<disk, csv, cache, df, preview, show_outliers, last_run>>

\* lines 315-350: the chart, then the caption with int(z_max); int() of NaN
\* raises ValueError and the run ends there
MultiTab1 ==
    /\ pc = "multi_tab1"
    /\ LET z == z_max(Rows)
           fig == Chart("fig_heatmap", Idx(df_heatmap(Rows)),
                        Layout("-", "unset", <<>>, <<>>, <<Rat(0, 1), z>>))
       IN  IF int_raises(z)
           THEN /\ Emit(<<fig, Text("exception", "ValueError")>>)
                /\ pc' = "crashed"
           ELSE /\ Emit(<<fig, El("caption", "capped at", <<int(z)>>, Plain)>>)
                /\ pc' = "multi_tab2"
    /\ UNCHANGED <<disk, csv, cache, df, preview, show_outliers, last_run>>

\* lines 353-367
MultiTab2 ==
    /\ pc = "multi_tab2"
    /\ Emit(<<Chart("fig_sun", Idx(df_sunburst(Rows)), Plain)>>)
    /\ pc' = "multi_tab3"
    /\ UNCHANGED <<disk, csv, cache, df, preview, show_outliers, last_run>>

\* lines 370-388
MultiTab3 ==
    /\ pc = "multi_tab3"
    /\ Emit(<<Chart("fig_facet", Idx(df_facet(Rows)), LogY)>>)
    /\ pc' = "multi_tab4"
    /\ UNCHANGED <<disk, csv, cache, df, preview, show_outliers, last_run>>

\* lines 390-408
MultiTab4 ==
    /\ pc = "multi_tab4"
    /\ Emit(<<Chart("fig_scatter", Idx(Rows), LogY)>>)
    /\ pc' = "success"
    /\ UNCHANGED <<disk, csv, cache, df, preview, show_outliers, last_run>>

\* line 410
Success ==
    /\ pc = "success"
    /\ Emit(<<Text("success", "Dashboard Analysis Complete!")>>)
    /\ pc' = "done"
    /\ UNCHANGED <<disk, csv, cache, df, preview, show_outliers, last_run>>

-----------------------------------------------------------------------------
(* The user and the file system.  A rerun starts the script from line 1.   *)

StartRerun ==
    /\ last_run' = [outcome |-> pc, page |-> page, preview |-> preview,
                    show_outliers |-> show_outliers, df |-> df]
    /\ pc' = "start"
    /\ page' = <<>>
    /\ df' = <<>>

\* a checkbox can be clicked when the finished run rendered it
Rendered(id) == \E i \in 1..Len(page) : page[i].el = "checkbox" /\ page[i].id = id

TogglePreview ==
    /\ pc \in Idle
    /\ Rendered("Show Raw Data Preview")
    /\ StartRerun
    /\ preview' = ~preview
    /\ UNCHANGED <<disk, csv, cache, show_outliers>>

ToggleOutliers ==
    /\ pc \in Idle
    /\ Rendered("Show Outliers")
    /\ StartRerun
    /\ show_outliers' = ~show_outliers
    /\ UNCHANGED <<disk, csv, cache, preview>>

\* the user reruns the app (menu, "R", or a page reload)
Rerun ==
    /\ pc \in Idle
    /\ StartRerun
    /\ UNCHANGED <<disk, csv, cache, preview, show_outliers>>

PlaceFile ==
    /\ pc \in Idle
    /\ ~disk
    /\ disk' = TRUE
    /\ UNCHANGED <<csv, cache, df, preview, show_outliers, pc, page, last_run>>

RemoveFile ==
    /\ pc \in Idle
    /\ disk
    /\ disk' = FALSE
    /\ UNCHANGED <<csv, cache, df, preview, show_outliers, pc, page, last_run>>

Next ==
    \/ Title \/ LoadData \/ MissingFile \/ RawPreview \/ Univariate
    \/ BivariateHeader \/ Tab1 \/ Tab2 \/ Tab3 \/ Tab4 \/ Tab5 \/ Tab6 \/ Tab7
    \/ MultivariateHeader \/ MultiTab1 \/ MultiTab2 \/ MultiTab3 \/ MultiTab4
    \/ Success
    \/ TogglePreview \/ ToggleOutliers \/ Rerun \/ PlaceFile \/ RemoveFile

-----------------------------------------------------------------------------
(* The data files the model is run on.                                     *)

CsvRow(st, cat, cc, founded, first, last, usd) ==
    [idx |-> 0, status |-> st, category |-> cat, country_code |-> cc,
     founded_at |-> founded, first_funding_at |-> first,
     last_funding_at |-> last, funding_total_usd |-> usd]

\* read_csv numbers the rows 0, 1, 2, ...
Numbered(rows) == AsSeq([i \in 1..Len(rows) |-> [rows[i] EXCEPT !.idx = i - 1]])

\* the members of a set of positions, in increasing order
Ascending(S) ==
    AsSeq([k \in 1..Cardinality(S) |->
        CHOOSE x \in S : Cardinality({y \in S : y < x}) = k - 1])

\* every file made of some of the rows cand[1], cand[2], ..., in that order
Files(cand) ==
    {Numbered(AsSeq([i \in 1..Cardinality(S) |-> cand[Ascending(S)[i]]])) :
        S \in SUBSET (1..Len(cand))}

\* startups that differ in their dates, status and missing cells
PoolSize == 8
DateRow(j) ==
    CASE j = 1 -> CsvRow("operating", 1, 1, DateCell(1990, 1, 1),
                         DateCell(1990, 1, 1), DateCell(1992, 3, 1), 10)
      [] j = 2 -> CsvRow("closed", 2, NaN, DateCell(2023, 12, 31),
                         DateCell(2024, 1, 5), DateCell(2023, 12, 31), 30)
      [] j = 3 -> CsvRow("pending", NaN, 2, DateCell(1989, 12, 31),
                         DateCell(1990, 1, 1), DateCell(1991, 1, 1), 20)
      [] j = 4 -> CsvRow("acquired", 1, 2, JunkCell,
                         DateCell(2001, 5, 5), DateCell(2002, 5, 5), 40)
      [] j = 5 -> CsvRow("ipo", 2, 1, DateCell(2024, 1, 1),
                         DateCell(2023, 12, 31), DateCell(2023, 6, 1), 70)
      [] j = 6 -> CsvRow("operating", 1, 1, DateCell(1990, 6, 1),
                         EmptyCell, DateCell(2090, 6, 1), 50)
      [] j = 7 -> CsvRow("operating", 5, 3, DateCell(2000, 2, 29),
                         DateCell(2000, 3, 1), DateCell(2001, 2, 28), 25)
      [] j = 8 -> CsvRow("operating", 1, 1, DateCell(2010, 3, 1),
                         DateCell(2010, 2, 30), DateCell(2011, 3, 2), 60)
      [] OTHER -> CsvRow("closed", j, j, DateCell(1990 + j, 7, 1),
                         DateCell(1990 + j, 7, 1), EmptyCell, j)
DateFiles == Files(AsSeq([j \in 1..PoolSize |-> DateRow(j)]))

\* many industries: one startup in each of the categories 1..n, every third
\* one operating, spread over 11 countries, followed by some of the extra
\* startups
NumCats == 31
NumExtras == 3
BaseRow(i) ==
    CsvRow(IF i % 3 = 0 THEN "operating" ELSE "closed", i, ((i - 1) % 11) + 1,
           DateCell(2000, 1, 1), DateCell(2000, 2, 1), DateCell(2001, 1, 1), i)
ExtraRow(n, j) ==
    LET cat == CASE j = 1 -> n
                 [] j = 2 -> n
                 [] j = 3 -> NaN
                 [] OTHER -> n - 1
    IN  CsvRow(IF j % 2 = 1 THEN "operating" ELSE "closed", cat, 1,
               DateCell(2001, 1, 1), DateCell(2001, 1, 1), DateCell(2003, 1, 1), 5)
CategoryFilesOf(n) ==
    {Numbered(AsSeq([i \in 1..n |-> BaseRow(i)])
              \o AsSeq([i \in 1..Cardinality(S) |-> ExtraRow(n, Ascending(S)[i])])) :
        S \in SUBSET (1..NumExtras)}
CategoryFiles ==
    UNION {CategoryFilesOf(n) : n \in {3, NumCats - 2, NumCats - 1, NumCats}}

Start(files) ==
    /\ csv \in files
    /\ disk \in BOOLEAN
    /\ cache = <<>>
    /\ df = <<>>
    /\ preview = FALSE
    /\ show_outliers = TRUE
    /\ pc = "start"
    /\ page = <<>>
    /\ last_run = NoRun

Init == Start(DateFiles)
Spec == Init /\ [][Next]_vars

InitCategories == Start(CategoryFiles)
SpecCategories == InitCategories /\ [][Next]_vars

-----------------------------------------------------------------------------
(* Reading the page and the file, for the properties below.                *)

Shown(id) == \E i \in 1..Len(page) : page[i].id = id
Fig(id) == page[CHOOSE i \in 1..Len(page) : page[i].id = id]
Kinds(p) == [i \in 1..Len(p) |-> p[i].el]
Loaded == df # <<>> /\ ~df[1].is_none

\* a date cell holds a calendar date
IsDate(cell) ==
    /\ cell.text = "date"
    /\ cell.m \in 1..12
    /\ cell.d \in 1..DaysInMonth(cell.y, cell.m)
\* date a is earlier than date b, by year, month and day
Earlier(a, b) ==
    \/ a.y < b.y
    \/ a.y = b.y /\ a.m < b.m
    \/ a.y = b.y /\ a.m = b.m /\ a.d < b.d
CsvRows == Range(csv)

-----------------------------------------------------------------------------
\* C1: when read_csv finds no file, load_data returns None; a run whose df is
\* None renders the error as its last element and stops: it renders no
\* header, chart, checkbox or success message, before or after the error.
C1_MissingFileStops ==
    /\ [][pc = "load" /\ cache = <<>> /\ ~disk
            => df' = <<None>> /\ pc' = "check"]_vars
    /\ [](df # <<>> /\ df[1].is_none =>
            /\ pc \in {"check", "stopped"}
            /\ Range(Kinds(page)) \subseteq {"title", "markdown", "error"}
            /\ pc = "stopped" =>
                  /\ page[Len(page)].el = "error"
                  /\ \A i \in 1..(Len(page) - 1) : page[i].el # "error")
    /\ [][pc = "stopped" => pc' \in {"stopped", "start"}]_vars

C1_Witness ==
    pc = "stopped" /\ ~disk /\ last_run.outcome = "none"
    /\ page[Len(page)].el = "error"

-----------------------------------------------------------------------------
\* the categories of the file and their startups, counted from the CSV rows
Categories == {r.category : r \in CsvRows} \ {NaN}
StartupsIn(c) == Cardinality({r \in CsvRows : r.category = c})
OperatingIn(c) ==
    Cardinality({r \in CsvRows : r.category = c /\ r.status = "operating"})

\* C2: once tab4 has run, the survival table has one row for every category
\* of the file, with Total_Startups >= 1 the number of its startups,
\* Operating_Count the number of its operating startups (0 when it has none),
\* 0 <= Operating_Count <= Total_Startups, and Survival_Rate the number
\* 100 * Operating_Count / Total_Startups, between 0 and 100; the rows of the
\* chart are rows of that table.
C2_RateIsPercentage ==
    pc = "tab5" =>
        LET t == survival_df(Rows)
        IN  /\ {t[i].Category : i \in 1..Len(t)} = Categories
            /\ Len(t) = Cardinality(Categories)
            /\ Range(Fig("fig_survival").data) \subseteq Range(t)
            /\ \A i \in 1..Len(t) :
                /\ t[i].Total_Startups = StartupsIn(t[i].Category)
                /\ t[i].Total_Startups >= 1
                /\ t[i].Operating_Count = OperatingIn(t[i].Category)
                /\ 0 <= t[i].Operating_Count
                /\ t[i].Operating_Count <= t[i].Total_Startups
                /\ ~IsNaN(t[i].Survival_Rate)
                /\ t[i].Survival_Rate.n * t[i].Total_Startups
                      = 100 * t[i].Operating_Count * t[i].Survival_Rate.d
                /\ RatLE(Rat(0, 1), t[i].Survival_Rate)
                /\ RatLE(t[i].Survival_Rate, Rat(100, 1))

\* a category without an operating startup, one with only operating ones and
\* one in between are on the chart
C2_Witness ==
    /\ pc = "tab5"
    /\ \E a, b, c \in Range(Fig("fig_survival").data) :
        /\ a.Operating_Count = 0 /\ a.Survival_Rate = Rat(0, 1)
        /\ b.Survival_Rate = Rat(100, 1)
        /\ RatLT(Rat(0, 1), c.Survival_Rate) /\ RatLT(c.Survival_Rate, Rat(100, 1))

\* C5: the survival chart has min(30, number of categories) rows, one per
\* category shown; no category left out has more startups than a category
\* shown; the rows are in non-decreasing order of Survival_Rate.
C5_Top30BySize ==
    pc = "tab5" =>
        LET d == Fig("fig_survival").data
            shown == {d[i].Category : i \in 1..Len(d)}
        IN  /\ Len(d) = (IF Cardinality(Categories) < 30
                         THEN Cardinality(Categories) ELSE 30)
            /\ Cardinality(shown) = Len(d)
            /\ shown \subseteq Categories
            /\ \A i \in 1..Len(d) : d[i].Total_Startups = StartupsIn(d[i].Category)
            /\ \A c \in shown : \A o \in Categories \ shown :
                    StartupsIn(c) >= StartupsIn(o)
            /\ \A i \in 1..(Len(d) - 1) :
                    RatLE(d[i].Survival_Rate, d[i + 1].Survival_Rate)

\* more than 30 categories, one of the larger ones the last in the file, and
\* rows of different rates on the chart
C5_Witness ==
    /\ pc = "tab5"
    /\ Cardinality(Categories) > 30
    /\ Len(Fig("fig_survival").data) = 30
    /\ \E c \in Categories : StartupsIn(c) > 1 /\ \A o \in Categories : o <= c
    /\ \E a, b \in Range(Fig("fig_survival").data) :
            RatLT(a.Survival_Rate, b.Survival_Rate)

-----------------------------------------------------------------------------
\* the startups the 'Speed to Funding' plot is to show, read off the CSV rows
TimedRows ==
    {r \in CsvRows :
        /\ r.status \in {"operating", "acquired", "ipo", "closed"}
        /\ IsDate(r.founded_at)
        /\ IsDate(r.first_funding_at)
        /\ ~Earlier(r.first_funding_at, r.founded_at)}

\* C6: once tab5 has run, the rows of fig_timing are exactly the startups with
\* one of the four statuses whose founding and first-funding cells are dates
\* and whose first funding is not before the founding, each once; a plotted
\* row has days_to_first_funding >= 0, the days from the one date to the
\* other (0 exactly when the dates are equal).
C6_SpeedToFundingRows ==
    pc = "tab6" =>
        LET d == Fig("fig_timing").data
        IN  /\ {d[i].idx : i \in 1..Len(d)} = {r.idx : r \in TimedRows}
            /\ Len(d) = Cardinality(TimedRows)
            /\ \A i \in 1..Len(d) :
                LET r == CHOOSE r \in CsvRows : r.idx = d[i].idx
                IN  /\ d[i].status = r.status
                    /\ d[i].status \in {"operating", "acquired", "ipo", "closed"}
                    /\ d[i].days_to_first_funding # NaN
                    /\ d[i].days_to_first_funding >= 0
                    /\ d[i].days_to_first_funding =
                          DaysFromCivil(r.first_funding_at.y, r.first_funding_at.m,
                                        r.first_funding_at.d)
                          - DaysFromCivil(r.founded_at.y, r.founded_at.m,
                                          r.founded_at.d)
                    /\ (d[i].days_to_first_funding = 0)
                          = (r.first_funding_at = r.founded_at)

\* a run that plots a startup funded on its founding day and leaves out one
\* startup for each reason: status, unparseable founding date, missing and
\* invalid first-funding date, first funding before founding
C6_Witness ==
    /\ pc = "tab6"
    /\ \E i \in 1..Len(Fig("fig_timing").data) :
            Fig("fig_timing").data[i].days_to_first_funding = 0
    /\ \E i \in 1..Len(Fig("fig_timing").data) :
            Fig("fig_timing").data[i].days_to_first_funding > 0
    /\ \E r \in CsvRows \ TimedRows : r.status = "pending"
    /\ \E r \in CsvRows \ TimedRows : r.founded_at.text = "junk"
    /\ \E r \in CsvRows \ TimedRows : r.first_funding_at.text = ""
    /\ \E r \in CsvRows \ TimedRows :
            r.first_funding_at.text = "date" /\ ~IsDate(r.first_funding_at)
    /\ \E r \in CsvRows \ TimedRows :
            /\ IsDate(r.founded_at) /\ IsDate(r.first_funding_at)
            /\ Earlier(r.first_funding_at, r.founded_at)

\* the startups founded in year y, read off the CSV rows
FoundedIn(y) == {r \in CsvRows : IsDate(r.founded_at) /\ r.founded_at.y = y}
RECURSIVE Total(_)
Total(S) ==
    IF S = {} THEN 0
    ELSE LET r == CHOOSE r \in S : TRUE
         IN  r.funding_total_usd + Total(S \ {r})

\* C8: once tab3 has run, fig_line has one point for each year from 1990 to
\* 2023 in which a startup of the file was founded and no other point, the
\* points are in increasing order of year, and the value of year y is the
\* mean funding_total_usd of the startups founded in y; a startup without a
\* founding date is in no year.
C8_FundingTrend ==
    pc = "tab4" =>
        LET d == Fig("fig_line").data
        IN  /\ {d[i].founded_year : i \in 1..Len(d)}
                  = {y \in 1990..2023 : FoundedIn(y) # {}}
            /\ \A i \in 1..(Len(d) - 1) : d[i].founded_year < d[i + 1].founded_year
            /\ \A i \in 1..Len(d) :
                LET S == FoundedIn(d[i].founded_year)
                IN  /\ ~IsNaN(d[i].funding_total_usd)
                    /\ d[i].funding_total_usd.n * Cardinality(S)
                          = Total(S) * d[i].funding_total_usd.d

\* a point that averages two startups, with startups founded in 1989 and in
\* 2024 and one without a founding date in the file
C8_Witness ==
    /\ pc = "tab4"
    /\ \E i \in 1..Len(Fig("fig_line").data) :
            /\ Cardinality(FoundedIn(Fig("fig_line").data[i].founded_year)) = 2
            /\ Fig("fig_line").data[i].funding_total_usd = Rat(30, 1)
    /\ \E i \in 1..Len(Fig("fig_line").data) :
            Fig("fig_line").data[i].founded_year = 2023
    /\ FoundedIn(1989) # {}
    /\ FoundedIn(2024) # {}
    /\ \E r \in CsvRows : ~IsDate(r.founded_at)

-----------------------------------------------------------------------------
\* a page without the y-axis settings of the lifespan box plot, and a page
\* without the preview table
NoLifespanAxis(p) ==
    [i \in 1..Len(p) |->
        IF p[i].id = "fig_lifespan" THEN [p[i] EXCEPT !.layout = Plain] ELSE p[i]]
NoPreview(p) == SelectSeq(p, LAMBDA e : e.el # "dataframe")
Previews(p) == SelectSeq(p, LAMBDA e : e.el = "dataframe")

\* the startups with a positive lifespan, read off the CSV rows
LivedRows ==
    {r \in CsvRows :
        /\ IsDate(r.founded_at)
        /\ IsDate(r.last_funding_at)
        /\ Earlier(r.founded_at, r.last_funding_at)}

\* C9: a finished run and the finished run before it, on the same loaded
\* data: with 'Show Raw Data Preview' unchanged the two pages are equal
\* except for the y-axis settings of fig_lifespan, whatever 'Show Outliers'
\* was; with 'Show Outliers' unchanged they are equal except for the preview
\* table, which is there exactly when the box is checked and holds the first
\* rows of the file, at most five.  The lifespan box plot and the scatter
\* show exactly the startups with a positive lifespan in either case.
C9_TogglesOnlyChangeTheirOwn ==
    pc \in {"done", "crashed"} /\ Loaded =>
        /\ {r.idx : r \in Range(Fig("fig_lifespan").data)}
              = {r.idx : r \in LivedRows}
        /\ Len(Fig("fig_lifespan").data) = Cardinality(LivedRows)
        /\ Fig("fig_money_time").data = Fig("fig_lifespan").data
        /\ Len(Previews(page)) = (IF preview THEN 1 ELSE 0)
        /\ \A i \in 1..Len(Previews(page)) :
              Previews(page)[i].data
                  = [k \in 1..(IF Len(csv) < 5 THEN Len(csv) ELSE 5) |-> k - 1]
        /\ last_run.outcome \in {"done", "crashed"} /\ last_run.df = df =>
              /\ last_run.preview = preview =>
                    NoLifespanAxis(page) = NoLifespanAxis(last_run.page)
              /\ last_run.show_outliers = show_outliers =>
                    NoPreview(page) = NoPreview(last_run.page)

\* 'Show Outliers' was unchecked between two complete runs, the plot has a
\* startup above the zoomed range, and the y-axis is what changed
C9_Witness ==
    /\ pc = "done" /\ last_run.outcome = "done" /\ last_run.df = df
    /\ last_run.show_outliers /\ ~show_outliers /\ last_run.preview = preview
    /\ page # last_run.page
    /\ \E r \in Range(Fig("fig_lifespan").data) :
            RatLT(Fig("fig_lifespan").layout.yaxis_range[2], r.lifespan_years)
    /\ Len(csv) > 5

-----------------------------------------------------------------------------
\* what a complete run renders, in order: the section headers, the charts
\* and the success message
FullOrder ==
    << "1. Univariate Analysis", "fig_status", "fig_rounds", "fig_cat", "fig_fund",
       "2. Bivariate Analysis", "fig_box", "fig_country", "fig_line",
       "fig_survival", "fig_timing", "fig_lifespan", "fig_money_time",
       "3. Multivariate Analysis", "fig_heatmap", "fig_sun", "fig_facet",
       "fig_scatter", "Dashboard Analysis Complete!" >>
Order(p) ==
    LET kept == SelectSeq(p, LAMBDA e : e.el \in {"header", "plotly_chart", "success"})
    IN  [i \in 1..Len(kept) |-> kept[i].id]

\* C3: a run on loaded data ends with the whole page rendered: the three
\* sections and their tabs in order and the success message last.
C3_EveryRunCompletes ==
    Loaded /\ pc \in Idle =>
        /\ pc = "done"
        /\ Order(page) = FullOrder
        /\ page[Len(page)].el = "success"

\* what does hold: a run renders a prefix of the full page, and it ends
\* early only by the ValueError of the heatmap caption, which is raised
\* exactly when no startup is in the heatmap
C3_OrderUntilCrash ==
    Loaded =>
        /\ Order(page) = SubSeq(FullOrder, 1, Len(Order(page)))
        /\ pc = "done" => Order(page) = FullOrder /\ page[Len(page)].el = "success"
        /\ pc = "crashed" =>
              /\ Fig("fig_heatmap").data = <<>>
              /\ Order(page) = SubSeq(FullOrder, 1, 15)
        /\ pc \in {"multi_tab2", "multi_tab3", "multi_tab4", "success", "done"} =>
              Fig("fig_heatmap").data # <<>>

\* C4: with 'Show Outliers' checked the y-axis of fig_lifespan is auto-ranged
\* and has no range; unchecked it is linear with the range [0, L], L a number
\* greater than 0 and greater than the upper fence of every status, namely
\* 1 + the greatest upper fence.
C4_ZoomRange ==
    pc = "tab7" =>
        LET lay == Fig("fig_lifespan").layout
            fences == upper_fences(df_life(Rows))
        IN  IF show_outliers
            THEN lay.yaxis_autorange = "true" /\ lay.yaxis_range = <<>>
            ELSE /\ lay.yaxis_type = "linear"
                 /\ Len(lay.yaxis_range) = 2
                 /\ lay.yaxis_range[1] = Rat(0, 1)
                 /\ ~IsNaN(lay.yaxis_range[2])
                 /\ RatLT(Rat(0, 1), lay.yaxis_range[2])
                 /\ \A i \in 1..Len(fences) : RatLT(fences[i], lay.yaxis_range[2])
                 /\ \E i \in 1..Len(fences) :
                        lay.yaxis_range[2] = RatAdd(fences[i], Rat(1, 1))

\* what does hold: the same, for a file with a startup of positive lifespan;
\* without one the range is [0, NaN]
C4_ZoomRangeWhenAnyLived ==
    pc = "tab7" /\ ~show_outliers =>
        LET lay == Fig("fig_lifespan").layout
            fences == upper_fences(df_life(Rows))
        IN  IF LivedRows = {}
            THEN lay.yaxis_range = <<Rat(0, 1), RatNaN>>
            ELSE /\ lay.yaxis_type = "linear"
                 /\ lay.yaxis_range[1] = Rat(0, 1)
                 /\ RatLT(Rat(0, 1), lay.yaxis_range[2])
                 /\ \A i \in 1..Len(fences) : RatLT(fences[i], lay.yaxis_range[2])
                 /\ \E i \in 1..Len(fences) :
                        lay.yaxis_range[2] = RatAdd(fences[i], Rat(1, 1))

Max(S) == CHOOSE x \in S : \A y \in S : y <= x
Min(S) == CHOOSE x \in S : \A y \in S : y >= x
\* the numbers of startups of the heatmap's cells, from the rows it shows
HeatCells ==
    LET h == {r \in CsvRows : r.idx \in Range(Fig("fig_heatmap").data)}
    IN  {Cardinality({q \in h : q.country_code = r.country_code
                                 /\ q.category = r.category}) : r \in h}
\* fewer than ten values of the column are more frequent than v
InTop10(v, col) ==
    /\ v # NaN
    /\ Cardinality({w \in {r[col] : r \in CsvRows} \ {NaN} :
            Cardinality({r \in CsvRows : r[col] = w})
                > Cardinality({r \in CsvRows : r[col] = v})}) < 10

\* C7: the heatmap shows only startups whose country and category are among
\* the ten most frequent of the file; its colour cap z_max is a number between
\* the least and the greatest count of its cells, and the caption reports
\* int(z_max).
C7_HeatmapCap ==
    Shown("fig_heatmap") =>
        LET z == Fig("fig_heatmap").layout.range_color[2]
        IN  /\ \A r \in CsvRows : r.idx \in Range(Fig("fig_heatmap").data) =>
                    InTop10(r.country_code, "country_code")
                    /\ InTop10(r.category, "category")
            /\ ~IsNaN(z)
            /\ \E c \in HeatCells : RatLE(Rat(c, 1), z)
            /\ \E c \in HeatCells : RatLE(z, Rat(c, 1))
            /\ Shown("capped at")
            /\ Fig("capped at").data = <<z.n \div z.d>>

\* what does hold: the same, when the heatmap shows a startup at all
C7_HeatmapCapWhenNonEmpty ==
    Shown("fig_heatmap") /\ Fig("fig_heatmap").data # <<>> =>
        LET z == Fig("fig_heatmap").layout.range_color[2]
        IN  /\ \A r \in CsvRows : r.idx \in Range(Fig("fig_heatmap").data) =>
                    InTop10(r.country_code, "country_code")
                    /\ InTop10(r.category, "category")
            /\ ~IsNaN(z)
            /\ \A c \in HeatCells : c <= Max(HeatCells) /\ c >= Min(HeatCells)
            /\ RatLE(Rat(Min(HeatCells), 1), z)
            /\ RatLE(z, Rat(Max(HeatCells), 1))
            /\ Fig("capped at").data = <<z.n \div z.d>>

\* C10: a loaded frame stays the cached value of load_data, whatever happens
\* to the file; and a run that starts while the file is in place loads it:
\* its df is a frame, also when an earlier run found no file.
C10_CacheAndReload ==
    [][ /\ (cache # <<>> /\ ~cache[1].is_none => cache' = cache)
        /\ (pc = "load" /\ disk => df' # <<>> /\ ~df'[1].is_none) ]_vars

\* what does hold: the first outcome sticks either way
C10_FirstLoadSticks ==
    [][cache # <<>> => cache' = cache /\ (pc = "load" => df' = cache)]_vars

=============================================================================
